---- MODULE Spec2Model ----
(***************************************************************************)
(* MilterDecoder: one client connection of the Milter server.              *)
(*                                                                         *)
(* The module models handle_client (src/src/client.rs) with the decoders   *)
(* of src/src/milter.rs and the message reassembly of src/src/parse.rs.    *)
(* Spec is one session without a clock, TimedSpec is one session with the  *)
(* timeout of its reads, ServerSpec is main (src/src/main.rs) with its     *)
(* SIGHUP task, its rebind loop and the sessions it spawns.                *)
(* A byte is a number in 0..255, a Rust String is the sequence of its      *)
(* UTF-8 bytes, a u32 that takes part in bit operations is a pair of       *)
(* 16-bit limbs <<high, low>>.                                             *)
(***************************************************************************)
EXTENDS Integers, Sequences, FiniteSets, TLC

(***************************************************************************)
(* Bounds of the model (not program constants).                            *)
(***************************************************************************)
\* HEADER frames the peer sends per message
MaxHeaders == 3
\* BODY frames the peer sends per message
MaxChunks == 3
\* body bytes the peer sends per message
MaxBody == 3
\* frames the peer may have in flight in the "frame" profile
MaxInFlight == 2
\* the largest Client_timeout, in time units
MaxTimeout == 2
\* the time since the start of a frame is counted up to this
MaxFrameTime == MaxTimeout + 1
\* sessions alive at a time
MaxSessions == 1
\* SIGHUPs delivered to the process
MaxSignals == 2
\* frames each of two concurrent peers sends
MaxPairFrames == 3
\* bytes of the HEADER payloads decode_header is applied to on its own
MaxPayloadLen == 5
\* bytes that follow a frame header of any declared length
MaxFiller == 4

(***************************************************************************)
(* Program constants.                                                      *)
(***************************************************************************)
NUL == 0
HT == 9
LF == 10
VT == 11
FF == 12
CR == 13
SP == 32
COLON == 58

SMFIC_ABORT == 65
SMFIC_BODY == 66
SMFIC_CONNECT == 67
SMFIC_DATA == 68
SMFIC_EOH == 69
SMFIC_HELO == 72
SMFIC_HEADER == 76
SMFIC_EOM == 77
SMFIC_OPTNEG == 79
SMFIC_QUIT == 81
SMFIC_RCPT == 82
SMFIC_ACCEPT == 97
SMFIC_DELHEADER == 100
SMFIC_ADDHEADER == 104
SMFIC_DELRCPT == 114

MACRO_SOH == 84

SMFIR_OPTNEG == 79
SMFIR_CONTINUE == 6
SMFIR_ACCEPT == 97

OPTNEG_MIN_LEN == 12
OPTNEG_RESP_SIZE == 13
HEADER_LEN == 5
CHUNK_MAX == 4096
NO_BODY == 16
NO_HDRS == 32

(***************************************************************************)
(* Sequences of bytes.                                                     *)
(***************************************************************************)
Min(a, b) == IF a < b THEN a ELSE b

Drop(s, n) == SubSeq(s, n + 1, Len(s))

Take(s, n) == SubSeq(s, 1, n)

RECURSIVE Flatten(_)
Flatten(ss) == IF ss = <<>> THEN <<>> ELSE Head(ss) \o Flatten(Tail(ss))

\* u32::to_be_bytes of a small number (the response sizes 1 and 13)
BE32(n) == << (n \div 16777216) % 256, (n \div 65536) % 256, (n \div 256) % 256, n % 256 >>

\* u32::from_be_bytes as a number (client.rs:103)
SizeOf(h) == h[1] * 16777216 + h[2] * 65536 + h[3] * 256 + h[4]

\* a subtraction that is not saturating
sub1_unchecked(n) == n - 1

\* u32::saturating_sub(1) (client.rs:138)
SaturatingSub1(n) == IF n = 0 THEN 0 ELSE n - 1

(***************************************************************************)
(* MilterCommand::from_u8: the recognised command bytes.                   *)
(***************************************************************************)
KnownCommands ==
    { SMFIC_ABORT, SMFIC_ACCEPT, SMFIC_ADDHEADER, SMFIC_BODY, SMFIC_CONNECT,
      SMFIC_DATA, SMFIC_DELHEADER, SMFIC_DELRCPT, SMFIC_EOH, SMFIC_EOM,
      SMFIC_HEADER, SMFIC_HELO, SMFIC_OPTNEG, SMFIC_QUIT, SMFIC_RCPT }

\* a from_u8 that knows the decoded commands alone
from_u8_decoded_only(val) ==
    IF val \in { SMFIC_OPTNEG, SMFIC_CONNECT, SMFIC_HELO, SMFIC_DATA, SMFIC_HEADER,
                 SMFIC_BODY, SMFIC_EOH }
    THEN val ELSE -1

\* every byte taken for a command
from_u8_any(val) == val

from_u8(val) == IF val \in KnownCommands THEN val ELSE -1

\* the commands handle_client has a branch for; the others take the else branch
DecodedCommands ==
    { SMFIC_OPTNEG, SMFIC_CONNECT, SMFIC_HELO, SMFIC_DATA, SMFIC_HEADER,
      SMFIC_BODY, SMFIC_EOH }

(***************************************************************************)
(* String::from_utf8_lossy on bytes: valid UTF-8 is kept, every maximal    *)
(* ill-formed part becomes U+FFFD (EF BF BD).                              *)
(***************************************************************************)
REPLACEMENT == << 239, 191, 189 >>

utf8_char_width(b) ==
    IF b < 128 THEN 1
    ELSE IF b >= 194 /\ b <= 223 THEN 2
    ELSE IF b >= 224 /\ b <= 239 THEN 3
    ELSE IF b >= 240 /\ b <= 244 THEN 4
    ELSE 0

safe_get(s, i) == IF i <= Len(s) THEN s[i] ELSE 0

IsCont(b) == b >= 128 /\ b <= 191

\* the second byte of a 3- or 4-byte sequence, by its lead byte
SecondOk(lead, b) ==
    CASE lead = 224 -> b >= 160 /\ b <= 191
      [] lead >= 225 /\ lead <= 236 -> b >= 128 /\ b <= 191
      [] lead = 237 -> b >= 128 /\ b <= 159
      [] lead >= 238 /\ lead <= 239 -> b >= 128 /\ b <= 191
      [] lead = 240 -> b >= 144 /\ b <= 191
      [] lead >= 241 /\ lead <= 243 -> b >= 128 /\ b <= 191
      [] lead = 244 -> b >= 128 /\ b <= 143
      [] OTHER -> FALSE

RECURSIVE LossyFrom(_, _)
LossyFrom(s, i) ==
    IF i > Len(s) THEN <<>>
    ELSE LET b == s[i]
             w == utf8_char_width(b)
         IN  CASE w = 1 -> <<b>> \o LossyFrom(s, i + 1)
               [] w = 2 ->
                    IF IsCont(safe_get(s, i + 1))
                    THEN SubSeq(s, i, i + 1) \o LossyFrom(s, i + 2)
                    ELSE REPLACEMENT \o LossyFrom(s, i + 1)
               [] w = 3 ->
                    IF ~SecondOk(b, safe_get(s, i + 1))
                    THEN REPLACEMENT \o LossyFrom(s, i + 1)
                    ELSE IF ~IsCont(safe_get(s, i + 2))
                    THEN REPLACEMENT \o LossyFrom(s, i + 2)
                    ELSE SubSeq(s, i, i + 2) \o LossyFrom(s, i + 3)
               [] w = 4 ->
                    IF ~SecondOk(b, safe_get(s, i + 1))
                    THEN REPLACEMENT \o LossyFrom(s, i + 1)
                    ELSE IF ~IsCont(safe_get(s, i + 2))
                    THEN REPLACEMENT \o LossyFrom(s, i + 2)
                    ELSE IF ~IsCont(safe_get(s, i + 3))
                    THEN REPLACEMENT \o LossyFrom(s, i + 3)
                    ELSE SubSeq(s, i, i + 3) \o LossyFrom(s, i + 4)
               [] OTHER -> REPLACEMENT \o LossyFrom(s, i + 1)

from_utf8_lossy(s) == LossyFrom(s, 1)

(***************************************************************************)
(* decode_optneg: the reply to an OPTNEG payload of at least 12 bytes.     *)
(***************************************************************************)
RECURSIVE BitAnd(_, _, _)
\* a & b on n-bit numbers
BitAnd(a, b, n) ==
    IF n = 0 THEN 0
    ELSE (IF a % 2 = 1 /\ b % 2 = 1 THEN 1 ELSE 0) + 2 * BitAnd(a \div 2, b \div 2, n - 1)

RECURSIVE BitOr(_, _, _)
\* a | b on n-bit numbers
BitOr(a, b, n) ==
    IF n = 0 THEN 0
    ELSE (IF a % 2 = 1 \/ b % 2 = 1 THEN 1 ELSE 0) + 2 * BitOr(a \div 2, b \div 2, n - 1)

\* u32::from_be_bytes, as <<high 16 bits, low 16 bits>>
from_be_bytes(b) == << b[1] * 256 + b[2], b[3] * 256 + b[4] >>

\* u32::to_be_bytes
to_be_bytes(u) == << u[1] \div 256, u[1] % 256, u[2] \div 256, u[2] % 256 >>

U32(n) == << n \div 65536, n % 65536 >>

And32(u, v) == << BitAnd(u[1], v[1], 16), BitAnd(u[2], v[2], 16) >>

Or32(u, v) == << BitOr(u[1], v[1], 16), BitOr(u[2], v[2], 16) >>

Not32(u) == << 65535 - u[1], 65535 - u[2] >>

\* a mask that clears NO_BODY alone
resp_protocol_flags_no_body_only(protocol_flags) ==
    And32(protocol_flags, Not32(U32(NO_BODY)))

\* milter.rs:96  protocol_flags & !(0x10 | 0x20)
resp_protocol_flags(protocol_flags) ==
    And32(protocol_flags, Not32(Or32(U32(NO_BODY), U32(NO_HDRS))))

\* milter.rs:88-97  the 17 bytes handed to write_all
optneg_resp(payload) ==
    LET protocol_ver == from_be_bytes(SubSeq(payload, 1, 4))
        actions == from_be_bytes(SubSeq(payload, 5, 8))
        protocol_flags == from_be_bytes(SubSeq(payload, 9, 12))
    IN  BE32(OPTNEG_RESP_SIZE) \o <<SMFIR_OPTNEG>> \o to_be_bytes(protocol_ver)
          \o to_be_bytes(actions) \o to_be_bytes(resp_protocol_flags(protocol_flags))

\* CONNECT and HELO answered ACCEPT
continue_resp_accept == BE32(1) \o << SMFIR_ACCEPT >>

\* the libmilter value of SMFIR_CONTINUE, 'c', in place of 0x06
continue_resp_libmilter == BE32(1) \o << 99 >>

\* milter.rs:133-137, 170-174  CONTINUE
continue_resp == BE32(1) \o <<SMFIR_CONTINUE>>

\* CONTINUE whatever the phase
eoh_resp_always_continue(eob) == BE32(1) \o << SMFIR_CONTINUE >>

\* milter.rs:298-305  ACCEPT for BODYEOB, CONTINUE for EOH
eoh_resp(eob) == BE32(1) \o << IF eob THEN SMFIR_ACCEPT ELSE SMFIR_CONTINUE >>

(***************************************************************************)
(* decode_data_macros: whether the macro batch is a start-of-header one.   *)
(***************************************************************************)
RECURSIVE SplitNul(_)
\* payload.split(|b| *b == 0x00)
SplitNul(s) ==
    IF \A i \in 1..Len(s) : s[i] # NUL THEN <<s>>
    ELSE LET k == CHOOSE i \in 1..Len(s) : s[i] = NUL /\ \A j \in 1..(i - 1) : s[j] # NUL
         IN  <<Take(s, k - 1)>> \o SplitNul(Drop(s, k))

NonEmpty(x) == x # <<>>

\* milter.rs:199
MacroParts(payload) == SelectSeq(SplitNul(payload), NonEmpty)

\* a flag that follows the batch: cleared by a batch of another phase
data_header_block_resets(payload, old) ==
    LET parts == MacroParts(payload)
    IN  IF parts = <<>> THEN old ELSE parts[1][1] = MACRO_SOH

\* milter.rs:200-210  the new value of is_header_block
data_header_block(payload, old) ==
    LET parts == MacroParts(payload)
    IN  IF parts = <<>> THEN old
        ELSE IF parts[1][1] = MACRO_SOH THEN TRUE ELSE old

(***************************************************************************)
(* decode_header: split at the first NUL, trim, store.                     *)
(***************************************************************************)
Whitespace == { HT, LF, VT, FF, CR, SP }

RECURSIVE TrimStart(_)
TrimStart(s) == IF s # <<>> /\ Head(s) \in Whitespace THEN TrimStart(Tail(s)) ELSE s

RECURSIVE TrimEnd(_)
TrimEnd(s) == IF s # <<>> /\ s[Len(s)] \in Whitespace THEN TrimEnd(Take(s, Len(s) - 1)) ELSE s

\* str::trim, on the ASCII white space
Trim(s) == TrimEnd(TrimStart(s))

RECURSIVE trim_end_matches_nul(_)
trim_end_matches_nul(s) ==
    IF s # <<>> /\ s[Len(s)] = NUL THEN trim_end_matches_nul(Take(s, Len(s) - 1)) ELSE s

\* header_str.splitn(2, '\0')
Splitn2(s) ==
    IF \A i \in 1..Len(s) : s[i] # NUL THEN <<s>>
    ELSE LET k == CHOOSE i \in 1..Len(s) : s[i] = NUL /\ \A j \in 1..(i - 1) : s[j] # NUL
         IN  << Take(s, k - 1), Drop(s, k) >>

\* milter.rs:258-263  the (key, val) pair of a HEADER payload
header_pair(payload) ==
    LET parts == Splitn2(from_utf8_lossy(payload))
        second == IF Len(parts) > 1 THEN parts[2] ELSE <<>>
    IN  [ key |-> trim_end_matches_nul(Trim(parts[1])),
          val |-> trim_end_matches_nul(Trim(second)) ]

EmptyMap == [ k \in {} |-> <<>> ]

\* insert(key, vec![val]): a repeated name overwrites its earlier values
entry_push_overwrite(hf, key, val) ==
    [ k \in (DOMAIN hf) \cup {key} |-> IF k = key THEN <<val>> ELSE hf[k] ]

\* milter.rs:264  header_fields.entry(key).or_default().push(val)
entry_push(hf, key, val) ==
    [ k \in (DOMAIN hf) \cup {key} |->
        IF k = key THEN (IF key \in DOMAIN hf THEN Append(hf[key], val) ELSE <<val>>)
        ELSE hf[k] ]

decode_header(payload, hf) ==
    LET kv == header_pair(payload) IN entry_push(hf, kv.key, kv.val)

\* milter.rs:270-271
decode_body(payload, body) == body \o from_utf8_lossy(payload)

(***************************************************************************)
(* parse_mail: the message handed to the MIME parser.                      *)
(***************************************************************************)
CRLF == << CR, LF >>

\* parse.rs:44  format!("{}: {}\r\n", k, v)
FormatLine(k, v) == k \o << COLON, SP >> \o v \o CRLF

\* parse.rs:43-45  the lines of one header name
RECURSIVE LinesOf(_, _)
LinesOf(k, vlist) ==
    IF vlist = <<>> THEN <<>> ELSE FormatLine(k, Head(vlist)) \o LinesOf(k, Tail(vlist))

\* the orders in which a HashMap may be iterated: any order of its keys
KeyOrders(hf) ==
    LET n == Cardinality(DOMAIN hf)
    IN  { o \in [1..n -> DOMAIN hf] : \A i, j \in 1..n : i # j => o[i] # o[j] }

\* parse.rs:41-46  under one iteration order
RECURSIVE HeaderSection(_, _)
HeaderSection(hf, order) ==
    IF order = <<>> THEN <<>>
    ELSE LinesOf(Head(order), hf[Head(order)]) \o HeaderSection(hf, Tail(order))

RECURSIVE CollapseCrlf(_)
\* str::replace("\r\n", "\n")
CollapseCrlf(s) ==
    IF s = <<>> THEN <<>>
    ELSE IF Len(s) >= 2 /\ s[1] = CR /\ s[2] = LF THEN <<LF>> \o CollapseCrlf(Drop(s, 2))
    ELSE <<s[1]>> \o CollapseCrlf(Tail(s))

RECURSIVE ExpandLf(_)
\* str::replace('\n', "\r\n")
ExpandLf(s) ==
    IF s = <<>> THEN <<>>
    ELSE IF s[1] = LF THEN CRLF \o ExpandLf(Tail(s))
    ELSE <<s[1]>> \o ExpandLf(Tail(s))

\* the expansion without the collapse before it
body_crlf_expand_only(body) == ExpandLf(body)

\* parse.rs:51
body_crlf(body) == ExpandLf(CollapseCrlf(body))

\* parse.rs:38-52  mail_string
mail_string(m) == m.head \o CRLF \o m.body

(***************************************************************************)
(* The peer (the MTA) and what it sends.                                   *)
(***************************************************************************)
Frame(c, p) == [ cmd |-> c, payload |-> p ]

\* the wire encoding BE32(N) || C || P of a frame
Encode(f) == BE32(1 + Len(f.payload)) \o <<f.cmd>> \o f.payload

RECURSIVE EncodeAll(_)
EncodeAll(fs) == IF fs = <<>> THEN <<>> ELSE Encode(Head(fs)) \o EncodeAll(Tail(fs))

\* a command byte MilterCommand::from_u8 does not know
UNKNOWN_CMD == 90

\* OPTNEG payloads: version, actions, protocol mask; one with a 13th byte,
\* one of 11 bytes
OptNegPayloads ==
    { << 0, 0, 0, 6, 0, 0, 0, 127, 0, 0, 0 >>,
      << 0, 0, 0, 6, 0, 0, 0, 127, 0, 0, 0, 63 >>,
      << 0, 0, 0, 2, 0, 0, 0, 1, 0, 0, 0, 16 >>,
      << 0, 0, 0, 6, 0, 0, 1, 255, 0, 31, 255, 239 >>,
      << 0, 0, 0, 6, 255, 255, 255, 255, 255, 255, 255, 255 >>,
      << 1, 2, 3, 4, 0, 0, 0, 0, 128, 0, 0, 32 >>,
      << 0, 0, 0, 6, 0, 0, 0, 127, 0, 0, 0, 63, 9 >> }

\* HEADER payloads name NUL value: names A, B; values x, y; one to be trimmed
HeaderPayloads ==
    { << 65, 0, 120 >>, << 65, 0, 121 >>, << 66, 0, 120 >>, << 32, 66, 0, 32, 121, 32 >> }

\* DATA payloads: empty, start-of-header batches, a connect batch
DataPayloads ==
    { <<>>, << 84 >>, << 0, 84, 106, 0, 120 >>, << 67, 106, 0, 120, 0 >> }

\* the frames a peer of each profile sends
Vocabulary(p) ==
    CASE p = "neg" ->
           { Frame(SMFIC_OPTNEG, x) : x \in OptNegPayloads }
             \cup { Frame(SMFIC_CONNECT, << 109, 0, 52 >>), Frame(SMFIC_HELO, << 104 >>) }
      [] p = "hdr" ->
           { Frame(SMFIC_HEADER, x) : x \in HeaderPayloads }
             \cup { Frame(SMFIC_BODY, << 97 >>), Frame(SMFIC_EOH, <<>>) }
      [] p = "misc" ->
           { Frame(SMFIC_DATA, x) : x \in DataPayloads }
             \cup { Frame(c, << 1 >>) : c \in KnownCommands \ DecodedCommands }
             \cup { Frame(SMFIC_HEADER, << 65, 0, 120 >>), Frame(SMFIC_BODY, << 97 >>),
                    Frame(SMFIC_EOH, <<>>), Frame(UNKNOWN_CMD, <<>>) }
             \cup { Frame(SMFIC_OPTNEG, << 0, 0, 0, 6, 0, 0, 0, 127, 0, 0, 0, 63 >>),
                    Frame(SMFIC_CONNECT, <<>>), Frame(SMFIC_HELO, << 104, 0 >>) }
      [] p = "crlf" ->
           { Frame(SMFIC_BODY, x) : x \in { << CR >>, << LF >>, << CR, LF >>, << 97 >> } }
             \cup { Frame(SMFIC_HEADER, << 65, 0, 120 >>), Frame(SMFIC_EOH, <<>>) }
      [] p = "utf8" ->
           { Frame(SMFIC_BODY, x) :
               x \in { <<>>, << 195 >>, << 169 >>, << 195, 169 >>, << 97 >> } }
             \cup { Frame(SMFIC_EOH, <<>>) }
      [] p = "frame" ->
           { Frame(c, x) : c \in { SMFIC_EOH, SMFIC_QUIT, UNKNOWN_CMD },
                           x \in { <<>>, << 0 >>, << 0, 69 >> } }

      [] p = "timed" ->
           { Frame(SMFIC_CONNECT, << 109 >>), Frame(SMFIC_EOH, <<>>),
             Frame(SMFIC_QUIT, << 1 >>) }
      [] p = "pair" ->
           { Frame(SMFIC_HEADER, << 65, 0, 120 >>), Frame(SMFIC_HEADER, << 66, 0, 121 >>),
             Frame(SMFIC_BODY, << 97 >>), Frame(SMFIC_EOH, <<>>) }

Profiles == { "neg", "hdr", "misc", "crlf", "utf8", "frame" }

HeaderCap(p) == IF p = "hdr" THEN MaxHeaders ELSE 1

ChunkCap(p) == IF p \in { "crlf", "utf8" } THEN MaxChunks ELSE 1

InFlightCap(p) == IF p = "frame" THEN MaxInFlight ELSE 1

IsHeaderFrame(f) == f.cmd = SMFIC_HEADER

IsBodyFrame(f) == f.cmd = SMFIC_BODY

\* the sizes a read into a buffer of want bytes may return with avail bytes sent
ReadSizes(avail, want) == 1..Min(avail, want)

(***************************************************************************)
(* State.                                                                  *)
(***************************************************************************)
VARIABLES
    profile,         \* what kind of peer is connected
    sock,            \* bytes the peer has sent and the handler has not read
    inflight,        \* the frames those bytes (and the frame being read) encode
    shutdown,        \* a shutdown notification is pending in shutdown_rx
    pc,              \* where handle_client is
    exit,            \* why and where it returned
    header,          \* client.rs:64
    read_bytes,      \* client.rs:65
    command,         \* client.rs:104
    remaining,       \* client.rs:138
    payload,         \* client.rs:139
    is_body_eob,     \* client.rs:52
    is_header_block, \* client.rs:54
    header_fields,   \* client.rs:56
    body_field,      \* client.rs:59
    txHeaders,       \* HEADER payloads the peer sent since the last end-of-message
    txBodies,        \* BODY payloads the peer sent since the last end-of-message
    reads,           \* read calls that returned data in this loop iteration
    done,            \* the frame this loop iteration has dispatched
    written,         \* what this loop iteration handed to write_all
    parsed,          \* what this loop iteration handed to parse_mail
    timeout_duration, \* client.rs:49
    timer,           \* time since the timeout of the pending read was created
    waited,          \* time the pending read has been pending
    frame_time,      \* time since the first read of the frame began
    silent,          \* the peer has sent nothing yet
    wrote,           \* a frame was handed to write_all in this session
    conf_file,       \* what MilterDecoder.conf holds
    config,          \* main.rs:37
    CONFIG,          \* init.rs:64
    hup_signal,      \* a SIGHUP is delivered and not yet received
    hup_pc,          \* where the SIGHUP task of main.rs:48-56 is
    new_config,      \* main.rs:52
    signals,         \* SIGHUPs delivered so far
    main_pc,         \* where the loop of main.rs:97-130 is
    current_config,  \* main.rs:99
    listener,        \* the address main's listener is bound to
    shutdown_rx,     \* notifications unread in main's receiver (main.rs:115)
    sessions         \* the spawned handle_client tasks

conn == << profile, sock, inflight, shutdown >>

locals == << header, read_bytes, command, remaining, payload >>

session == << is_body_eob, is_header_block, header_fields, body_field >>

ghost == << txHeaders, txBodies, reads, done, written, parsed >>

timed == << timeout_duration, timer, waited, frame_time, silent, wrote >>

server == << conf_file, config, CONFIG, hup_signal, hup_pc, new_config, signals,
             main_pc, current_config, listener, shutdown_rx, sessions >>

vars == << profile, sock, inflight, shutdown, pc, exit, header, read_bytes, command,
           remaining, payload, is_body_eob, is_header_block, header_fields, body_field,
           txHeaders, txBodies, reads, done, written, parsed,
           timeout_duration, timer, waited, frame_time, silent, wrote,
           conf_file, config, CONFIG, hup_signal, hup_pc, new_config, signals,
           main_pc, current_config, listener, shutdown_rx, sessions >>

NoFrame == [ cmd |-> -1, payload |-> <<>> ]

NoEvent == [ frame |-> NoFrame, txh |-> <<>>, txb |-> <<>> ]

ZeroHeader == << 0, 0, 0, 0, 0 >>

\* the handler is running
NoExit ==
    [ why |-> "none", at |-> "none", read_bytes |-> 0, remaining |-> 0, held |-> FALSE ]

\* client.rs:37-66  handle_client before its first read
handle_client_init ==
    /\ sock = <<>>
    /\ inflight = <<>>
    /\ shutdown = FALSE
    /\ pc = "phase1"
    /\ exit = NoExit
    /\ header = ZeroHeader
    /\ read_bytes = 0
    /\ command = 0
    /\ remaining = 0
    /\ payload = <<>>
    /\ is_body_eob = FALSE
    /\ is_header_block = FALSE
    /\ header_fields = EmptyMap
    /\ body_field = <<>>
    /\ txHeaders = <<>>
    /\ txBodies = <<>>
    /\ reads = 0
    /\ done = NoEvent
    /\ written = <<>>
    /\ parsed = <<>>

\* no clock: a read may time out at any moment
TimedOff ==
    /\ timeout_duration = 0
    /\ timer = 0
    /\ waited = 0
    /\ frame_time = 0
    /\ silent = TRUE
    /\ wrote = FALSE

\* init.rs:22-25  Config; CONFIG before its first use
Unloaded == [ address |-> "unloaded", client_timeout |-> 0 ]

\* a session slot not in use
NoSession == [ st |-> "free", rx |-> 0, snapshot |-> Unloaded, timeout_duration |-> 0 ]

\* one session, any server: its signals are ShutdownBroadcast
ServerOff ==
    /\ conf_file = Unloaded
    /\ config = Unloaded
    /\ CONFIG = Unloaded
    /\ hup_signal = FALSE
    /\ hup_pc = "recv"
    /\ new_config = Unloaded
    /\ signals = 0
    /\ main_pc = "select"
    /\ current_config = Unloaded
    /\ listener = "none"
    /\ shutdown_rx = 0
    /\ sessions = << >>

Init ==
    /\ profile \in Profiles
    /\ handle_client_init
    /\ TimedOff
    /\ ServerOff

(***************************************************************************)
(* The environment: the peer sends a frame, the server broadcasts.         *)
(***************************************************************************)
PendingHeaders == Len(txHeaders) + Len(SelectSeq(inflight, IsHeaderFrame))

PendingChunks == Len(txBodies) + Len(SelectSeq(inflight, IsBodyFrame))

PendingBody ==
    Len(Flatten(txBodies))
      + Len(Flatten([ i \in 1..Len(inflight) |->
                        IF IsBodyFrame(inflight[i]) THEN inflight[i].payload ELSE <<>> ]))

\* a send commutes with the handler's loop-top step, so it is taken after it
PeerSend ==
    /\ pc \in { "phase1", "phase3", "dispatch" }
    /\ Len(inflight) < InFlightCap(profile)
    /\ \E f \in Vocabulary(profile) :
         /\ IsHeaderFrame(f) => PendingHeaders < HeaderCap(profile)
         /\ IsBodyFrame(f) => /\ PendingChunks < ChunkCap(profile)
                              /\ PendingBody + Len(f.payload) <= MaxBody
         /\ sock' = sock \o Encode(f)
         /\ inflight' = Append(inflight, f)
    /\ UNCHANGED << profile, shutdown, pc, exit, locals, session, ghost >>

\* main.rs:54, 62  shutdown_tx.send(())
ShutdownBroadcast ==
    /\ pc # "exit"
    /\ ~shutdown
    /\ shutdown' = TRUE
    /\ UNCHANGED << profile, sock, inflight, pc, exit, locals, session, ghost >>

(***************************************************************************)
(* handle_client.                                                          *)
(***************************************************************************)
\* a farewell frame before the return
return_written_farewell == << [ bytes |-> continue_resp, ok |-> TRUE ] >>

\* client.rs:73, 79, 88, 97, 133  nothing is written on the way out
return_written == <<>>

\* a return that hands what it holds to the parser
return_parsed_partial ==
    IF header_fields # EmptyMap \/ body_field # <<>>
    THEN << [ head |-> <<>>, body |-> body_field, ok |-> TRUE ] >>
    ELSE <<>>

\* client.rs:73, 79, 88, 97, 133  the returns call nothing: the header map and
\* the body buffer are dropped as they are
return_parsed == <<>>

\* return: the connection is dropped with the handler's locals
Return(why) ==
    /\ pc' = "exit"
    /\ exit' = [ why |-> why, at |-> pc, read_bytes |-> read_bytes,
                 remaining |-> remaining,
                 held |-> (header_fields # EmptyMap \/ body_field # <<>>) ]
    /\ sock' = <<>>
    /\ inflight' = <<>>
    /\ shutdown' = FALSE
    /\ header' = ZeroHeader
    /\ read_bytes' = 0
    /\ command' = 0
    /\ remaining' = 0
    /\ payload' = <<>>
    /\ is_body_eob' = FALSE
    /\ is_header_block' = FALSE
    /\ header_fields' = EmptyMap
    /\ body_field' = <<>>
    /\ txHeaders' = <<>>
    /\ txBodies' = <<>>
    /\ reads' = 0
    /\ done' = NoEvent
    /\ written' = return_written
    /\ parsed' = return_parsed
    /\ UNCHANGED profile

Reading == pc \in { "phase1", "phase3" }

\* a select! with the shutdown arm in phase 1 alone
shutdown_arm_header_only(p) == p = "phase1"

\* client.rs:72, 149  the select! of both read loops has the shutdown arm
shutdown_arm(p) == p \in { "phase1", "phase3" }

\* client.rs:72-74, 149-151  the shutdown arm of select! wins
ExitShutdown == shutdown_arm(pc) /\ shutdown /\ Return("shutdown")

\* a zero-byte read taken for the end of the frame being received
zero_read_ends_frame ==
    /\ pc' = "dispatch"
    /\ exit' = [ why |-> "closed", at |-> pc, read_bytes |-> read_bytes,
                 remaining |-> remaining,
                 held |-> (header_fields # EmptyMap \/ body_field # <<>>) ]
    /\ UNCHANGED << conn, locals, session, ghost >>

\* client.rs:79, 156  return
zero_read == Return("closed")

\* client.rs:76-80, 153-157  Ok(Ok(0)): the peer closed, at any point of a
\* frame; the bytes of sock it had not sent yet are never sent
ExitClosed == Reading /\ zero_read

\* client.rs:85-89, 164-168  Ok(Err(e))
ExitReadError == Reading /\ Return("ioerror")

\* client.rs:90-98, 169-177  Err(_): the bytes of sock, if any, are still on
\* their way when the timeout of this read elapses
ExitTimeout == Reading /\ Return("timeout")

\* a chunk buffer of 4096 bytes whatever remains
chunk_size_whole_buffer(rem) == CHUNK_MAX

\* a chunk one byte longer than what remains
chunk_size_plus_one(rem) == Min(CHUNK_MAX, rem + 1)

\* client.rs:144
chunk_size(rem) == Min(CHUNK_MAX, rem)

\* a payload loop left after its first read
more_payload_first_read(rem) == FALSE

\* client.rs:141  while remaining > 0
more_payload(rem) == rem > 0

\* client.rs:67-135  one read of phase 1; with the fifth byte, the command check
ReadHeader ==
    /\ pc = "phase1"
    /\ sock # <<>>
    /\ \E n \in ReadSizes(Len(sock), HEADER_LEN - read_bytes) :
         LET hd == [ i \in 1..HEADER_LEN |->
                       IF i > read_bytes /\ i <= read_bytes + n
                       THEN sock[i - read_bytes] ELSE header[i] ]
             size == SizeOf(hd)
         IN  IF read_bytes + n < HEADER_LEN
             THEN /\ header' = hd
                  /\ read_bytes' = read_bytes + n
                  /\ sock' = Drop(sock, n)
                  /\ reads' = reads + 1
                  /\ UNCHANGED << profile, inflight, shutdown, pc, exit, command,
                                  remaining, payload, session, txHeaders, txBodies,
                                  done, written, parsed >>
             ELSE IF from_u8(hd[5]) = -1
             THEN Return("badcmd")
             ELSE /\ header' = hd
                  /\ read_bytes' = read_bytes + n
                  /\ sock' = Drop(sock, n)
                  /\ reads' = reads + 1
                  /\ command' = hd[5]
                  /\ remaining' = SaturatingSub1(size)
                  /\ payload' = <<>>
                  /\ pc' = IF SaturatingSub1(size) > 0 THEN "phase3" ELSE "dispatch"
                  /\ UNCHANGED << profile, inflight, shutdown, exit, session,
                                  txHeaders, txBodies, done, written, parsed >>

\* client.rs:141-179  one read of phase 3
ReadPayload ==
    /\ pc = "phase3"
    /\ sock # <<>>
    /\ \E n \in ReadSizes(Len(sock), chunk_size(remaining)) :
         /\ payload' = payload \o Take(sock, n)
         /\ remaining' = remaining - n
         /\ sock' = Drop(sock, n)
         /\ reads' = reads + 1
         /\ pc' = IF more_payload(remaining - n) THEN "phase3" ELSE "dispatch"
    /\ UNCHANGED << profile, inflight, shutdown, exit, header, read_bytes, command,
                    session, txHeaders, txBodies, done, written, parsed >>

\* the frame, as the peer sent it, that the handler is dispatching
Current == IF inflight = <<>> THEN NoFrame ELSE Head(inflight)

Dispatched ==
    /\ pc' = "loop"
    /\ done' = [ frame |-> Current, txh |-> txHeaders, txb |-> txBodies ]
    /\ inflight' = IF inflight = <<>> THEN <<>> ELSE Tail(inflight)
    /\ UNCHANGED << profile, sock, shutdown, exit, locals, reads >>

\* write_all: it succeeds or fails
Write(bytes) == \E ok \in BOOLEAN : written' = << [ bytes |-> bytes, ok |-> ok ] >>

\* client.rs:193-195, milter.rs:38-108
DispatchOptNeg ==
    /\ pc = "dispatch"
    /\ command = SMFIC_OPTNEG
    /\ IF Len(payload) >= OPTNEG_MIN_LEN
       THEN Write(optneg_resp(payload))
       ELSE written' = <<>>
    /\ parsed' = <<>>
    /\ Dispatched
    /\ UNCHANGED << session, txHeaders, txBodies >>

\* client.rs:196-201, milter.rs:128-182
DispatchConnectHelo ==
    /\ pc = "dispatch"
    /\ command \in { SMFIC_CONNECT, SMFIC_HELO }
    /\ Write(continue_resp)
    /\ parsed' = <<>>
    /\ Dispatched
    /\ UNCHANGED << session, txHeaders, txBodies >>

\* a CONTINUE for a command that gets none
no_resp_continue == << [ bytes |-> continue_resp, ok |-> TRUE ] >>

\* client.rs:202-216, 228-240  these arms hold no write
no_resp == <<>>

\* client.rs:202-205, milter.rs:196-254
DispatchData ==
    /\ pc = "dispatch"
    /\ command = SMFIC_DATA
    /\ is_header_block' = data_header_block(payload, is_header_block)
    /\ written' = no_resp
    /\ parsed' = <<>>
    /\ Dispatched
    /\ UNCHANGED << is_body_eob, header_fields, body_field, txHeaders, txBodies >>

\* client.rs:206-209, milter.rs:257-265
DispatchHeader ==
    /\ pc = "dispatch"
    /\ command = SMFIC_HEADER
    /\ header_fields' = decode_header(payload, header_fields)
    /\ txHeaders' = Append(txHeaders, Current.payload)
    /\ written' = no_resp
    /\ parsed' = <<>>
    /\ Dispatched
    /\ UNCHANGED << is_body_eob, is_header_block, body_field, txBodies >>

\* client.rs:210-216, milter.rs:268-272
DispatchBody ==
    /\ pc = "dispatch"
    /\ command = SMFIC_BODY
    /\ is_body_eob' = TRUE
    /\ is_header_block' = FALSE
    /\ body_field' = decode_body(payload, body_field)
    /\ txBodies' = Append(txBodies, Current.payload)
    /\ written' = no_resp
    /\ parsed' = <<>>
    /\ Dispatched
    /\ UNCHANGED << header_fields, txHeaders >>

\* parse.rs:36-61  the messages parse_mail may build, and the parser's verdict
parse_mail(hf, body) ==
    { [ head |-> HeaderSection(hf, o), body |-> body_crlf(body), ok |-> r ] :
        o \in KeyOrders(hf), r \in BOOLEAN }

\* the clearing without body_field.clear()
eob_clear_keeps_body ==
    /\ header_fields' = EmptyMap
    /\ is_body_eob' = FALSE
    /\ UNCHANGED body_field

\* the clearing without is_body_eob = false
eob_clear_keeps_flag ==
    /\ header_fields' = EmptyMap
    /\ body_field' = <<>>
    /\ UNCHANGED is_body_eob

\* client.rs:224-226
eob_clear ==
    /\ header_fields' = EmptyMap
    /\ body_field' = <<>>
    /\ is_body_eob' = FALSE

\* the clearing skipped when the parser reports an error
after_parse_on_success(m) ==
    IF m.ok THEN eob_clear ELSE UNCHANGED << header_fields, body_field, is_body_eob >>

\* client.rs:223-226  parse_mail returns nothing; the clearing follows it
after_parse(m) == eob_clear

\* client.rs:217-227, milter.rs:292-312
DispatchEoh ==
    /\ pc = "dispatch"
    /\ command = SMFIC_EOH
    /\ Write(eoh_resp(is_body_eob))
    /\ IF is_body_eob
       THEN \E m \in parse_mail(header_fields, body_field) :
                /\ parsed' = << m >>
                /\ after_parse(m)
       ELSE /\ parsed' = <<>>
            /\ UNCHANGED << header_fields, body_field, is_body_eob >>
    /\ IF txBodies # <<>>
       THEN txHeaders' = <<>> /\ txBodies' = <<>>
       ELSE UNCHANGED << txHeaders, txBodies >>
    /\ Dispatched
    /\ UNCHANGED is_header_block

\* an ABORT that starts the message over
else_branch_resets_on_abort(c) == c = SMFIC_ABORT

\* client.rs:228-240  the else branch logs the frame and resets nothing
else_branch_resets(c) == FALSE

\* client.rs:228-240  a recognised command without a decoder
DispatchOther ==
    /\ pc = "dispatch"
    /\ command \in KnownCommands \ DecodedCommands
    /\ IF else_branch_resets(command)
       THEN eob_clear
       ELSE UNCHANGED << header_fields, body_field, is_body_eob >>
    /\ written' = no_resp
    /\ parsed' = <<>>
    /\ Dispatched
    /\ UNCHANGED << is_header_block, txHeaders, txBodies >>

\* client.rs:61-66  the next iteration of the main loop
LoopTop ==
    /\ pc = "loop"
    /\ pc' = "phase1"
    /\ header' = ZeroHeader
    /\ read_bytes' = 0
    /\ command' = 0
    /\ remaining' = 0
    /\ payload' = <<>>
    /\ reads' = 0
    /\ done' = NoEvent
    /\ written' = <<>>
    /\ parsed' = <<>>
    /\ UNCHANGED << conn, exit, session, txHeaders, txBodies >>

Next ==
    \/ PeerSend /\ UNCHANGED << timed, server >>
    \/ ShutdownBroadcast /\ UNCHANGED << timed, server >>
    \/ ExitShutdown /\ UNCHANGED << timed, server >>
    \/ ExitClosed /\ UNCHANGED << timed, server >>
    \/ ExitReadError /\ UNCHANGED << timed, server >>
    \/ ExitTimeout /\ UNCHANGED << timed, server >>
    \/ ReadHeader /\ UNCHANGED << timed, server >>
    \/ ReadPayload /\ UNCHANGED << timed, server >>
    \/ DispatchOptNeg /\ UNCHANGED << timed, server >>
    \/ DispatchConnectHelo /\ UNCHANGED << timed, server >>
    \/ DispatchData /\ UNCHANGED << timed, server >>
    \/ DispatchHeader /\ UNCHANGED << timed, server >>
    \/ DispatchBody /\ UNCHANGED << timed, server >>
    \/ DispatchEoh /\ UNCHANGED << timed, server >>
    \/ DispatchOther /\ UNCHANGED << timed, server >>
    \/ LoopTop /\ UNCHANGED << timed, server >>

Spec == Init /\ [][Next]_vars

(***************************************************************************)
(* handle_client with a clock: tokio::time::timeout around each read.      *)
(* Time passes only while a read is pending; a select! with an arm ready   *)
(* completes at once.                                                      *)
(***************************************************************************)
handler == << conn, pc, exit, locals, session, ghost >>

TimedInit ==
    /\ profile = "timed"
    /\ handle_client_init
    /\ timeout_duration \in 0..MaxTimeout
    /\ timer = 0
    /\ waited = 0
    /\ frame_time = 0
    /\ silent = TRUE
    /\ wrote = FALSE
    /\ ServerOff

\* payload reads without a timeout
read_timeout_header_only(p, d) == IF p = "phase1" THEN d ELSE MaxTimeout + 2

\* client.rs:71, 148  the duration of the timeout around the read of phase p
read_timeout(p, d) == d

\* one timeout for the frame, not restarted by a read
timer_kept(t) == t

\* client.rs:71, 148  each read attempt creates its timeout anew
restart_timer(t) == 0

\* what the session has handed to write_all so far
Wrote == wrote' = (wrote \/ written' # <<>>)

\* one time unit passes with the read pending: no byte has arrived, the
\* timeout has not elapsed, no shutdown notification is there for the select!
Tick ==
    /\ Reading
    /\ ~(shutdown /\ shutdown_arm(pc))
    /\ timer < read_timeout(pc, timeout_duration)
    /\ timer' = Min(timer + 1, MaxTimeout + 1)
    /\ waited' = Min(waited + 1, MaxTimeout + 1)
    /\ frame_time' = Min(frame_time + 1, MaxFrameTime)
    /\ UNCHANGED << handler, timeout_duration, silent, wrote, server >>

TimedSend ==
    /\ PeerSend
    /\ silent' = FALSE
    /\ UNCHANGED << timeout_duration, timer, waited, frame_time, wrote, server >>

TimedBroadcast == ShutdownBroadcast /\ UNCHANGED << timed, server >>

\* client.rs:81-84, 158-163  a read returns bytes; the next attempt starts
TimedRead ==
    /\ ReadHeader \/ ReadPayload
    /\ timer' = restart_timer(timer)
    /\ waited' = 0
    /\ Wrote
    /\ UNCHANGED << timeout_duration, frame_time, silent, server >>

\* client.rs:90-98, 169-177  the timeout of the pending read has elapsed
TimedExitTimeout ==
    /\ timer >= read_timeout(pc, timeout_duration)
    /\ ExitTimeout
    /\ Wrote
    /\ UNCHANGED << timeout_duration, timer, waited, frame_time, silent, server >>

TimedExitShutdown ==
    /\ ExitShutdown
    /\ Wrote
    /\ UNCHANGED << timeout_duration, timer, waited, frame_time, silent, server >>

TimedExitClosed ==
    /\ ExitClosed \/ ExitReadError
    /\ Wrote
    /\ UNCHANGED << timeout_duration, timer, waited, frame_time, silent, server >>

TimedDispatch ==
    /\ DispatchConnectHelo \/ DispatchEoh \/ DispatchOther
    /\ Wrote
    /\ UNCHANGED << timeout_duration, timer, waited, frame_time, silent, server >>

\* client.rs:61-71  the first read attempt of the next frame
TimedLoopTop ==
    /\ LoopTop
    /\ timer' = 0
    /\ waited' = 0
    /\ frame_time' = 0
    /\ UNCHANGED << timeout_duration, silent, wrote, server >>

TimedNext ==
    \/ Tick
    \/ TimedSend
    \/ TimedBroadcast
    \/ TimedRead
    \/ TimedExitTimeout
    \/ TimedExitShutdown
    \/ TimedExitClosed
    \/ TimedDispatch
    \/ TimedLoopTop

\* the handler's task runs; select! picks at random among the arms that
\* are ready, so the shutdown arm is not passed over for ever
TimedSpec ==
    /\ TimedInit
    /\ [][TimedNext]_vars
    /\ WF_vars(TimedDispatch)
    /\ WF_vars(TimedLoopTop)
    /\ SF_vars(TimedExitShutdown)

(***************************************************************************)
(* main: the SIGHUP task, the rebind loop and the sessions it spawns.      *)
(***************************************************************************)
\* the configurations MilterDecoder.conf may hold
Configs ==
    { [ address |-> "[::]:8898", client_timeout |-> 30 ],
      [ address |-> "[::]:8899", client_timeout |-> 5 ] }

\* init.rs:33-59  the file as it is when it is read
load_config == conf_file

Slots == 1..MaxSessions

ServerInit ==
    /\ profile = "none"
    /\ handle_client_init
    /\ TimedOff
    /\ conf_file \in Configs
    /\ config = conf_file
    /\ CONFIG = Unloaded
    /\ hup_signal = FALSE
    /\ hup_pc = "recv"
    /\ new_config = Unloaded
    /\ signals = 0
    /\ main_pc = "config"
    /\ current_config = Unloaded
    /\ listener = "none"
    /\ shutdown_rx = -1
    /\ sessions = [ i \in Slots |-> NoSession ]

Running == main_pc # "exit"

\* the administrator edits MilterDecoder.conf
EditConfFile ==
    /\ Running
    /\ conf_file' \in Configs \ { conf_file }
    /\ UNCHANGED << handler, timed, config, CONFIG, hup_signal, hup_pc, new_config,
                    signals, main_pc, current_config, listener, shutdown_rx, sessions >>

\* a SIGHUP is delivered to the process
Sighup ==
    /\ Running
    /\ ~hup_signal
    /\ signals < MaxSignals
    /\ hup_signal' = TRUE
    /\ signals' = signals + 1
    /\ UNCHANGED << handler, timed, conf_file, config, CONFIG, hup_pc, new_config,
                    main_pc, current_config, listener, shutdown_rx, sessions >>

\* main.rs:50-52  hup.recv() and load_config()
HupRecv ==
    /\ Running
    /\ hup_pc = "recv"
    /\ hup_signal
    /\ hup_signal' = FALSE
    /\ new_config' = load_config
    /\ hup_pc' = "store"
    /\ UNCHANGED << handler, timed, conf_file, config, CONFIG, signals, main_pc,
                    current_config, listener, shutdown_rx, sessions >>

\* main.rs:53  *config.write().unwrap() = new_config
HupStore ==
    /\ Running
    /\ hup_pc = "store"
    /\ config' = new_config
    /\ hup_pc' = "send"
    /\ UNCHANGED << handler, timed, conf_file, CONFIG, hup_signal, new_config, signals,
                    main_pc, current_config, listener, shutdown_rx, sessions >>

\* broadcast::Sender::send: one notification for each receiver that exists
Broadcast(ss) ==
    [ i \in Slots |-> IF ss[i].st = "free" THEN ss[i] ELSE [ ss[i] EXCEPT !.rx = @ + 1 ] ]

\* main.rs:54  shutdown_tx_hup.send(())
HupSend ==
    /\ Running
    /\ hup_pc = "send"
    /\ shutdown_rx' = IF shutdown_rx >= 0 THEN shutdown_rx + 1 ELSE shutdown_rx
    /\ sessions' = Broadcast(sessions)
    /\ hup_pc' = "recv"
    /\ UNCHANGED << handler, timed, conf_file, config, CONFIG, hup_signal, new_config,
                    signals, main_pc, current_config, listener >>

\* std::process::exit: every task ends with the process
ProcessExit ==
    /\ main_pc' = "exit"
    /\ listener' = "none"
    /\ shutdown_rx' = -1
    /\ sessions' = [ i \in Slots |-> NoSession ]
    /\ hup_signal' = FALSE
    /\ hup_pc' = "recv"
    /\ new_config' = Unloaded
    /\ current_config' = Unloaded
    /\ UNCHANGED << handler, timed, conf_file, config, CONFIG, signals >>

\* main.rs:60-63  SIGTERM
Sigterm == Running /\ ProcessExit

\* main.rs:99  current_config = config.read().unwrap().clone()
MainReadConfig ==
    /\ main_pc = "config"
    /\ current_config' = config
    /\ main_pc' = "bind"
    /\ UNCHANGED << handler, timed, conf_file, config, CONFIG, hup_signal, hup_pc,
                    new_config, signals, listener, shutdown_rx, sessions >>

\* main.rs:101-106  TcpListener::bind succeeds
MainBind ==
    /\ main_pc = "bind"
    /\ listener' = current_config.address
    /\ main_pc' = "subscribe"
    /\ UNCHANGED << handler, timed, conf_file, config, CONFIG, hup_signal, hup_pc,
                    new_config, signals, current_config, shutdown_rx, sessions >>

\* main.rs:107-113  TcpListener::bind fails
MainBindFailed == main_pc = "bind" /\ ProcessExit

\* main.rs:115  shutdown_tx.subscribe(): notifications sent from now on
MainSubscribe ==
    /\ main_pc = "subscribe"
    /\ shutdown_rx' = 0
    /\ main_pc' = "select"
    /\ UNCHANGED << handler, timed, conf_file, config, CONFIG, hup_signal, hup_pc,
                    new_config, signals, current_config, listener, sessions >>

\* main.rs:119-123  a connection is accepted and its handler spawned
MainAccept ==
    /\ main_pc = "select"
    /\ \E i \in Slots :
         /\ sessions[i].st = "free"
         /\ sessions' = [ sessions EXCEPT ![i] =
                            [ st |-> "spawned", rx |-> 0, snapshot |-> current_config,
                              timeout_duration |-> 0 ] ]
    /\ UNCHANGED << handler, timed, conf_file, config, CONFIG, hup_signal, hup_pc,
                    new_config, signals, main_pc, current_config, listener,
                    shutdown_rx >>

\* main.rs:119  listener.accept() yields Err: the pattern Ok((stream, addr))
\* does not match, select! disables the arm and goes on waiting for its
\* other arm alone
MainAcceptError ==
    /\ main_pc = "select"
    /\ main_pc' = "recv_only"
    /\ UNCHANGED << handler, timed, conf_file, config, CONFIG, hup_signal, hup_pc,
                    new_config, signals, current_config, listener, shutdown_rx,
                    sessions >>

\* main.rs:124-127  the shutdown arm: break, the listener and the receiver
\* are dropped
MainRecv ==
    /\ main_pc \in { "select", "recv_only" }
    /\ shutdown_rx > 0
    /\ listener' = "none"
    /\ shutdown_rx' = -1
    /\ main_pc' = "config"
    /\ UNCHANGED << handler, timed, conf_file, config, CONFIG, hup_signal, hup_pc,
                    new_config, signals, current_config, sessions >>

\* client.rs:48-49  the handler starts; the first use of CONFIG loads it
SessionStart ==
    /\ Running
    /\ \E i \in Slots :
         /\ sessions[i].st = "spawned"
         /\ CONFIG' = IF CONFIG = Unloaded THEN load_config ELSE CONFIG
         /\ sessions' = [ sessions EXCEPT ![i] =
                            [ @ EXCEPT !.st = "running",
                                       !.timeout_duration = CONFIG'.client_timeout ] ]
    /\ UNCHANGED << handler, timed, conf_file, config, hup_signal, hup_pc, new_config,
                    signals, main_pc, current_config, listener, shutdown_rx >>

\* client.rs:72-74  the handler returns on a notification, or for another
\* reason (client.rs:76-98, 133)
SessionReturn ==
    /\ Running
    /\ \E i \in Slots :
         /\ sessions[i].st = "running"
         /\ sessions' = [ sessions EXCEPT ![i] = NoSession ]
    /\ UNCHANGED << handler, timed, conf_file, config, CONFIG, hup_signal, hup_pc,
                    new_config, signals, main_pc, current_config, listener,
                    shutdown_rx >>

ServerNext ==
    \/ EditConfFile
    \/ Sighup
    \/ HupRecv
    \/ HupStore
    \/ HupSend
    \/ Sigterm
    \/ MainReadConfig
    \/ MainBind
    \/ MainBindFailed
    \/ MainSubscribe
    \/ MainAccept
    \/ MainAcceptError
    \/ MainRecv
    \/ SessionStart
    \/ SessionReturn

ServerSpec == ServerInit /\ [][ServerNext]_vars

(***************************************************************************)
(* Two handle_client tasks spawned by main, each with its own peer.  A     *)
(* step of a task is one iteration of its main loop: a frame read and      *)
(* dispatched.  sessions[i] is the stack frame of task i with, beside it,  *)
(* what its peer sent and was sent.                                        *)
(***************************************************************************)
\* main.rs:121-122  the tasks spawned for two accepted connections
Tasks == { 1, 2 }

\* client.rs:52-59  the accumulators as handle_client declares them
new_locals ==
    [ is_body_eob |-> FALSE, is_header_block |-> FALSE,
      header_fields |-> EmptyMap, body_field |-> <<>> ]

\* client.rs:189-241  the dispatch of one frame: the accumulators after it,
\* the frames handed to write_all and the arguments handed to parse_mail
handle_frame(l, f) ==
    LET quiet(m) == [ locals |-> m, written |-> <<>>, reported |-> <<>> ]
    IN  CASE f.cmd = SMFIC_OPTNEG ->
               [ locals |-> l,
                 written |-> IF Len(f.payload) >= OPTNEG_MIN_LEN
                             THEN << optneg_resp(f.payload) >> ELSE <<>>,
                 reported |-> <<>> ]
          [] f.cmd \in { SMFIC_CONNECT, SMFIC_HELO } ->
               [ locals |-> l, written |-> << continue_resp >>, reported |-> <<>> ]
          [] f.cmd = SMFIC_DATA ->
               quiet([ l EXCEPT !.is_header_block = data_header_block(f.payload, @) ])
          [] f.cmd = SMFIC_HEADER ->
               quiet([ l EXCEPT !.header_fields = decode_header(f.payload, @) ])
          [] f.cmd = SMFIC_BODY ->
               quiet([ l EXCEPT !.is_body_eob = TRUE, !.is_header_block = FALSE,
                                !.body_field = decode_body(f.payload, @) ])
          [] f.cmd = SMFIC_EOH ->
               IF l.is_body_eob
               THEN [ locals |-> [ l EXCEPT !.header_fields = EmptyMap,
                                            !.body_field = <<>>,
                                            !.is_body_eob = FALSE ],
                      written |-> << eoh_resp(TRUE) >>,
                      reported |-> << [ header_fields |-> l.header_fields,
                                        body_field |-> l.body_field ] >> ]
               ELSE [ locals |-> l, written |-> << eoh_resp(FALSE) >>,
                      reported |-> <<>> ]
          [] OTHER -> quiet(l)

\* accumulators in a static shared by the tasks
own_shared(i) == 1

\* client.rs:52-59  let mut: each task has the accumulators of its own call
own(i) == i

PairInit ==
    /\ profile = "pair"
    /\ handle_client_init
    /\ TimedOff
    /\ conf_file = Unloaded
    /\ config = Unloaded
    /\ CONFIG = Unloaded
    /\ hup_signal = FALSE
    /\ hup_pc = "recv"
    /\ new_config = Unloaded
    /\ signals = 0
    /\ main_pc = "select"
    /\ current_config = Unloaded
    /\ listener = "none"
    /\ shutdown_rx = 0
    /\ sessions = [ i \in Tasks |->
                      [ locals |-> new_locals, input |-> <<>>, written |-> <<>>,
                        reported |-> <<>> ] ]

\* client.rs:61-242  task i reads the next frame of its peer and dispatches it
PairStep(i) ==
    /\ Len(sessions[i].input) < MaxPairFrames
    /\ \E f \in Vocabulary(profile) :
         LET r == handle_frame(sessions[own(i)].locals, f)
             stored == [ sessions EXCEPT ![own(i)].locals = r.locals ]
         IN  sessions' = [ stored EXCEPT ![i].input = Append(@, f),
                                         ![i].written = @ \o r.written,
                                         ![i].reported = @ \o r.reported ]
    /\ UNCHANGED << handler, timed, conf_file, config, CONFIG, hup_signal, hup_pc,
                    new_config, signals, main_pc, current_config, listener,
                    shutdown_rx >>

PairNext == \E i \in Tasks : PairStep(i)

PairSpec == PairInit /\ [][PairNext]_vars

(***************************************************************************)
(* decode_header on its own: handle_client has received a HEADER frame     *)
(* with any payload over a small alphabet and dispatches it.               *)
(***************************************************************************)
\* the bytes of those payloads: NUL, space, 'A', 'x'
HeaderAlphabet == { NUL, SP, 65, 120 }

HeaderInputs == UNION { [ 1..n -> HeaderAlphabet ] : n \in 0..MaxPayloadLen }

\* client.rs:181-188  the first frame of a session, a HEADER frame, received
HeaderInit ==
    /\ profile = "header"
    /\ \E p \in HeaderInputs :
         /\ inflight = << Frame(SMFIC_HEADER, p) >>
         /\ header = BE32(1 + Len(p)) \o << SMFIC_HEADER >>
         /\ payload = p
    /\ sock = <<>>
    /\ shutdown = FALSE
    /\ pc = "dispatch"
    /\ exit = NoExit
    /\ read_bytes = HEADER_LEN
    /\ command = SMFIC_HEADER
    /\ remaining = 0
    /\ is_body_eob = FALSE
    /\ is_header_block = FALSE
    /\ header_fields = EmptyMap
    /\ body_field = <<>>
    /\ txHeaders = <<>>
    /\ txBodies = <<>>
    /\ reads = 1
    /\ done = NoEvent
    /\ written = <<>>
    /\ parsed = <<>>
    /\ TimedOff
    /\ ServerOff

HeaderNext == DispatchHeader /\ UNCHANGED << timed, server >>

HeaderSpec == HeaderInit /\ [][HeaderNext]_vars

(***************************************************************************)
(* The framer on a raw byte stream: a header that declares any length N,   *)
(* zero and lengths beyond one chunk included, followed by bytes numbered  *)
(* 1, 2, ... so that each byte tells its place in the stream.              *)
(***************************************************************************)
\* the lengths a header declares
DeclaredSizes == { 0, 1, 2, 3, CHUNK_MAX + 1, CHUNK_MAX + 2, 2 * CHUNK_MAX }

Filler == [ i \in 1..MaxFiller |-> i ]

RawStreams ==
    { BE32(n) \o << c >> \o Take(Filler, k) :
        n \in DeclaredSizes, c \in { SMFIC_QUIT, SMFIC_EOH }, k \in 0..MaxFiller }

\* client.rs:37-66  handle_client before its first read, the peer having
\* sent all it will send
FramerInit ==
    /\ profile = "raw"
    /\ sock \in RawStreams
    /\ inflight = <<>>
    /\ shutdown = FALSE
    /\ pc = "phase1"
    /\ exit = NoExit
    /\ header = ZeroHeader
    /\ read_bytes = 0
    /\ command = 0
    /\ remaining = 0
    /\ payload = <<>>
    /\ is_body_eob = FALSE
    /\ is_header_block = FALSE
    /\ header_fields = EmptyMap
    /\ body_field = <<>>
    /\ txHeaders = <<>>
    /\ txBodies = <<>>
    /\ reads = 0
    /\ done = NoEvent
    /\ written = <<>>
    /\ parsed = <<>>
    /\ TimedOff
    /\ ServerOff

FramerNext ==
    \/ ReadHeader /\ UNCHANGED << timed, server >>
    \/ ReadPayload /\ UNCHANGED << timed, server >>
    \/ ExitClosed /\ UNCHANGED << timed, server >>
    \/ ExitTimeout /\ UNCHANGED << timed, server >>
    \/ DispatchEoh /\ UNCHANGED << timed, server >>
    \/ DispatchOther /\ UNCHANGED << timed, server >>
    \/ LoopTop /\ UNCHANGED << timed, server >>

FramerSpec == FramerInit /\ [][FramerNext]_vars

(***************************************************************************)
(* The 0x45 arm step by step: decode_eoh_bodyeob has returned from its     *)
(* write before handle_client looks at is_body_eob.  The handler has       *)
(* received up to two HEADER frames, at most one BODY frame and a 0x45.    *)
(***************************************************************************)
\* client.rs:181-217  the message held when the 0x45 frame is dispatched
EomInit ==
    /\ profile = "eom"
    /\ \E hs \in { <<>> } \cup { << a >> : a \in HeaderPayloads }
                  \cup { << a, b >> : a, b \in HeaderPayloads },
          bs \in { <<>>, << << 97 >> >>, << << LF >> >> } :
         /\ txHeaders = hs
         /\ txBodies = bs
         /\ header_fields =
              IF Len(hs) = 0 THEN EmptyMap
              ELSE IF Len(hs) = 1 THEN decode_header(hs[1], EmptyMap)
              ELSE decode_header(hs[2], decode_header(hs[1], EmptyMap))
         /\ body_field = IF bs = <<>> THEN <<>> ELSE decode_body(bs[1], <<>>)
         /\ is_body_eob = (bs # <<>>)
    /\ inflight = << Frame(SMFIC_EOH, <<>>) >>
    /\ header = BE32(1) \o << SMFIC_EOH >>
    /\ sock = <<>>
    /\ shutdown = FALSE
    /\ pc = "dispatch"
    /\ exit = NoExit
    /\ read_bytes = HEADER_LEN
    /\ command = SMFIC_EOH
    /\ remaining = 0
    /\ payload = <<>>
    /\ is_header_block = FALSE
    /\ reads = 1
    /\ done = NoEvent
    /\ written = <<>>
    /\ parsed = <<>>
    /\ TimedOff
    /\ ServerOff

\* a reassembly that is skipped when the write failed
eoh_parse_guard_ok(ok) == ok

\* client.rs:219-221  decode_eoh_bodyeob returns nothing: what became of its
\* write does not reach the test of is_body_eob
eoh_parse_guard(ok) == TRUE

\* client.rs:219, milter.rs:292-312  decode_eoh_bodyeob: the write_all
EohWrite ==
    /\ pc = "dispatch"
    /\ command = SMFIC_EOH
    /\ Write(eoh_resp(is_body_eob))
    /\ pc' = "eoh_written"
    /\ UNCHANGED << conn, exit, locals, session, txHeaders, txBodies, reads, done,
                    parsed, timed, server >>

\* client.rs:221-227  if is_body_eob: parse_mail and the three resets
EohParse ==
    /\ pc = "eoh_written"
    /\ IF is_body_eob /\ eoh_parse_guard(written[1].ok)
       THEN \E m \in parse_mail(header_fields, body_field) :
                /\ parsed' = << m >>
                /\ after_parse(m)
       ELSE /\ parsed' = <<>>
            /\ UNCHANGED << header_fields, body_field, is_body_eob >>
    /\ IF txBodies # <<>>
       THEN txHeaders' = <<>> /\ txBodies' = <<>>
       ELSE UNCHANGED << txHeaders, txBodies >>
    /\ Dispatched
    /\ UNCHANGED << is_header_block, written, timed, server >>

EomNext == EohWrite \/ EohParse

EomSpec == EomInit /\ [][EomNext]_vars

(***************************************************************************)
(* Properties.                                                             *)
(***************************************************************************)
\* bit k (0 the least significant) of a big-endian 32-bit field
BitOf(b4, k) ==
    LET byte == b4[4 - (k \div 8)]
        r == k % 8
        p == CASE r = 0 -> 1 [] r = 1 -> 2 [] r = 2 -> 4 [] r = 3 -> 8
               [] r = 4 -> 16 [] r = 5 -> 32 [] r = 6 -> 64 [] OTHER -> 128
    IN  (byte \div p) % 2

\* this loop iteration dispatched a frame with command c
Handled(c) == done.frame.cmd = c

\* this loop iteration processed an end-of-message: a 0x45 frame with at
\* least one BODY frame since the previous end-of-message
HandledEom == Handled(SMFIC_EOH) /\ done.txb # <<>>

\* the bytes of the frames this loop iteration handed to write_all
WrittenBytes == [ i \in 1..Len(written) |-> written[i].bytes ]

\* C1: an OPTNEG frame with a payload of 12 bytes or more is answered with
\* exactly one frame BE32(13) || 0x4F || version || actions || protocol mask,
\* where the version and actions are the request's, bits 0x10 and 0x20 of
\* the protocol mask are zero and every other bit is the request's.
OptNegReply ==
    (Handled(SMFIC_OPTNEG) /\ Len(done.frame.payload) >= 12) =>
        /\ Len(written) = 1
        /\ LET req == done.frame.payload
               r == written[1].bytes
           IN  /\ Len(r) = 17
               /\ SubSeq(r, 1, 5) = << 0, 0, 0, 13, 79 >>
               /\ SubSeq(r, 6, 9) = SubSeq(req, 1, 4)
               /\ SubSeq(r, 10, 13) = SubSeq(req, 5, 8)
               /\ \A k \in 0..31 :
                    BitOf(SubSeq(r, 14, 17), k) =
                      IF k \in { 4, 5 } THEN 0 ELSE BitOf(SubSeq(req, 9, 12), k)

\* the handshake version=6, actions=0x7F, protocol=0x3F was answered with 0x0F
OptNegReplyWitness ==
    /\ Handled(SMFIC_OPTNEG)
    /\ done.frame.payload = << 0, 0, 0, 6, 0, 0, 0, 127, 0, 0, 0, 63 >>
    /\ written = << [ bytes |-> << 0, 0, 0, 13, 79, 0, 0, 0, 6, 0, 0, 0, 127, 0, 0, 0, 15 >>,
                      ok |-> TRUE ] >>

\* C2: a 0x45 frame with no BODY frame since the last end-of-message is
\* answered CONTINUE and nothing is reassembled; with at least one BODY frame
\* it is answered ACCEPT, the message is reassembled exactly once and
\* is_body_eob is false afterwards.
EohDisambiguation ==
    Handled(SMFIC_EOH) =>
        IF done.txb = <<>>
        THEN WrittenBytes = << << 0, 0, 0, 1, 6 >> >> /\ parsed = <<>>
        ELSE /\ WrittenBytes = << << 0, 0, 0, 1, 97 >> >>
             /\ Len(parsed) = 1
             /\ ~is_body_eob

\* a 0x45 frame after two BODY frames was answered ACCEPT
EohDisambiguationWitness ==
    /\ Handled(SMFIC_EOH)
    /\ Len(done.txb) = 2
    /\ written = << [ bytes |-> << 0, 0, 0, 1, 97 >>, ok |-> TRUE ] >>
    /\ Len(parsed) = 1

RECURSIVE FoldHeaders(_)
\* the header map of a sequence of HEADER payloads
FoldHeaders(ps) ==
    IF ps = <<>> THEN EmptyMap
    ELSE decode_header(ps[Len(ps)], FoldHeaders(Take(ps, Len(ps) - 1)))

RECURSIVE FoldBody(_)
\* the body buffer of a sequence of BODY payloads
FoldBody(ps) ==
    IF ps = <<>> THEN <<>>
    ELSE decode_body(ps[Len(ps)], FoldBody(Take(ps, Len(ps) - 1)))

\* C3: after an end-of-message the header map and the body buffer are empty,
\* is_body_eob is false and the handler goes on to the next frame; the
\* message it reassembled is made of the HEADER and BODY frames received
\* since the previous end-of-message, and of nothing older.
AfterEndOfMessage ==
    HandledEom =>
        /\ header_fields = EmptyMap
        /\ body_field = <<>>
        /\ ~is_body_eob
        /\ pc = "loop"
        /\ exit = NoExit
        /\ Len(parsed) = 1
        /\ parsed[1].body = body_crlf(FoldBody(done.txb))
        /\ \E o \in KeyOrders(FoldHeaders(done.txh)) :
             parsed[1].head = HeaderSection(FoldHeaders(done.txh), o)

\* an end-of-message with two headers and a body, the ACCEPT write having failed
AfterEndOfMessageWitness ==
    /\ HandledEom
    /\ Len(done.txh) = 2
    /\ written = << [ bytes |-> << 0, 0, 0, 1, 97 >>, ok |-> FALSE ] >>
    /\ header_fields = EmptyMap
    /\ body_field = <<>>
    /\ pc = "loop"

\* C4: while the session runs, is_body_eob is true only if a BODY frame has
\* been received since the last end-of-message; it becomes true only by the
\* dispatch of a BODY frame and false only by an end-of-message.
BodyPhaseTransitions ==
    /\ [](is_body_eob => txBodies # <<>>)
    /\ [][ pc' # "exit" =>
             /\ (~is_body_eob /\ is_body_eob') =>
                  (pc = "dispatch" /\ command = SMFIC_BODY /\ done'.frame.cmd = SMFIC_BODY)
             /\ (is_body_eob /\ ~is_body_eob') =>
                  (pc = "dispatch" /\ command = SMFIC_EOH /\ txBodies # <<>>
                     /\ txBodies' = <<>>) ]_vars

\* is_body_eob is still true after an ABORT that followed a BODY frame
BodyPhaseTransitionsWitness ==
    /\ Handled(SMFIC_ABORT)
    /\ is_body_eob
    /\ done.txb # <<>>

\* C5: every frame handed to write_all is an OPTNEG reply of length 13,
\* CONTINUE or ACCEPT.
OnlyReplies ==
    \A i \in 1..Len(written) :
        LET b == written[i].bytes
        IN  \/ b = << 0, 0, 0, 1, 6 >>
            \/ b = << 0, 0, 0, 1, 97 >>
            \/ Len(b) = 17 /\ SubSeq(b, 1, 5) = << 0, 0, 0, 13, 79 >>

\* a CONNECT frame was answered CONTINUE
OnlyRepliesWitness ==
    /\ Handled(SMFIC_CONNECT)
    /\ written = << [ bytes |-> << 0, 0, 0, 1, 6 >>, ok |-> TRUE ] >>

\* the line of the reassembled message for a HEADER payload
LineOf(p) == FormatLine(header_pair(p).key, header_pair(p).val)

\* the one-to-one assignments of n lines to n frames
Bijections(n) == { f \in [1..n -> 1..n] : \A i, j \in 1..n : i # j => f[i] # f[j] }

\* C6: the header section of the reassembled message consists of exactly one
\* line "name: value" CRLF for each HEADER frame received since the last
\* end-of-message, and the lines of one name are in the arrival order of
\* their frames.
HeaderPreservation ==
    (HandledEom /\ Len(parsed) = 1) =>
        LET txh == done.txh
            n == Len(txh)
        IN  \E f \in Bijections(n) :
              /\ parsed[1].head = Flatten([ i \in 1..n |-> LineOf(txh[f[i]]) ])
              /\ \A i, j \in 1..n :
                   (i < j /\ header_pair(txh[f[i]]).key = header_pair(txh[f[j]]).key)
                     => f[i] < f[j]

\* frames A: x, B: x, A: y were reassembled as B: x, A: x, A: y
HeaderPreservationWitness ==
    /\ HandledEom
    /\ done.txh = << << 65, 0, 120 >>, << 66, 0, 120 >>, << 65, 0, 121 >> >>
    /\ Len(parsed) = 1
    /\ parsed[1].head = << 66, 58, 32, 120, 13, 10, 65, 58, 32, 120, 13, 10,
                           65, 58, 32, 121, 13, 10 >>

RECURSIVE FirstArrivals(_)
\* the header names of a sequence of HEADER payloads, each at its first arrival
FirstArrivals(ps) ==
    IF ps = <<>> THEN <<>>
    ELSE LET before == FirstArrivals(Take(ps, Len(ps) - 1))
             k == header_pair(ps[Len(ps)]).key
         IN  IF \E i \in 1..Len(before) : before[i] = k THEN before ELSE Append(before, k)

\* C7: in the reassembled message the header names are in insertion order:
\* every line of a name that arrived first precedes every line of a name
\* that arrived later.
HeaderInsertionOrder ==
    (HandledEom /\ Len(parsed) = 1) =>
        parsed[1].head = HeaderSection(FoldHeaders(done.txh), FirstArrivals(done.txh))

\* C8: when a 0x45 frame ends the message, the body buffer is the
\* concatenation, byte for byte, of the BODY payloads received since the
\* last end-of-message.
BodyConcatenation ==
    (pc = "dispatch" /\ command = SMFIC_EOH /\ txBodies # <<>>) =>
        body_field = Flatten(txBodies)

\* C9: in the reassembled body every LF is preceded by a CR, and normalising
\* the normalised body again changes nothing.
BodyCrlfCanonical ==
    \A i \in 1..Len(parsed) :
        LET b == parsed[i].body
        IN  /\ \A k \in 1..Len(b) : b[k] = LF => (k > 1 /\ b[k - 1] = CR)
            /\ body_crlf(b) = b

\* a body sent as LF then CRLF was reassembled as CRLF CRLF
BodyCrlfCanonicalWitness ==
    /\ HandledEom
    /\ done.txb = << << LF >>, << CR, LF >> >>
    /\ Len(parsed) = 1
    /\ parsed[1].body = << CR, LF, CR, LF >>

\* C10: the frame the handler dispatches is the frame the peer sent, command
\* and payload, however the reads cut its bytes, and the bytes left unread
\* are exactly the frames that follow it.
FramingRoundTrip ==
    pc = "dispatch" =>
        /\ inflight # <<>>
        /\ command = Head(inflight).cmd
        /\ payload = Head(inflight).payload
        /\ sock = EncodeAll(Tail(inflight))

\* a two-byte payload received in five reads, the next frame waiting unread
FramingRoundTripWitness ==
    /\ pc = "dispatch"
    /\ Len(inflight) = 2
    /\ payload = << 0, 69 >>
    /\ reads = 5
    /\ sock = Encode(inflight[2])

\* C11: a frame whose command byte is not a recognised command ends the
\* session: while its header is being read nothing is written, reassembled
\* or changed in the accumulated headers and body, the read of its fifth
\* byte is the handler's return, and the handler takes no step after it.
UnknownCommandTerminates ==
    /\ [][ (pc = "phase1" /\ inflight # <<>> /\ Head(inflight).cmd \notin KnownCommands)
             => \/ /\ pc' = "phase1"
                   /\ read_bytes' < HEADER_LEN
                   /\ UNCHANGED << session, written, parsed, done >>
                \/ /\ pc' = "exit"
                   /\ written' = <<>>
                   /\ parsed' = <<>>
                   /\ done' = NoEvent ]_vars
    /\ [][ pc # "exit" ]_vars

\* the handler returned at the fifth header byte of an unknown command
UnknownCommandTerminatesWitness ==
    /\ pc = "exit"
    /\ exit.why = "badcmd"
    /\ exit.at = "phase1"
    /\ exit.read_bytes = 4

\* C12: after an OPTNEG frame with a payload shorter than 12 bytes the
\* handler has returned: it is never back at the top of its loop to read the
\* next frame.
ShortOptNegTerminates ==
    (Handled(SMFIC_OPTNEG) /\ Len(done.frame.payload) < OPTNEG_MIN_LEN) => pc = "exit"

\* C13: after a write that failed the handler has returned: it is never back
\* at the top of its loop to read the next frame.
WriteErrorTerminates ==
    (\E i \in 1..Len(written) : ~written[i].ok) => pc = "exit"

\* C14: a zero-byte read happens at a read of the header or of the payload
\* and is the handler's return: nothing is written, the frame received in
\* part is not dispatched and nothing is reassembled.
ZeroReadTerminates ==
    [][ (exit'.why = "closed" /\ exit.why = "none")
          => /\ pc \in { "phase1", "phase3" }
             /\ pc' = "exit"
             /\ written' = <<>>
             /\ parsed' = <<>>
             /\ done' = NoEvent ]_vars

\* the peer closed with one byte of a payload outstanding
ZeroReadTerminatesWitness ==
    /\ pc = "exit"
    /\ exit.why = "closed"
    /\ exit.at = "phase3"
    /\ exit.remaining = 1

RaceLostReturns ==
    /\ [][ (exit = NoExit /\ exit'.why \in { "shutdown", "timeout" })
             => /\ pc \in { "phase1", "phase3" }
                /\ pc' = "exit"
                /\ written' = <<>>
                /\ wrote' = wrote
                /\ parsed' = <<>>
                /\ done' = NoEvent ]_vars
    /\ [][ pc = "exit" => pc' = "exit" /\ wrote' = wrote ]_vars
    /\ []((pc = "exit" /\ exit.why = "timeout" /\ silent)
            => (~wrote /\ frame_time = timeout_duration /\ exit.read_bytes = 0))

\* a silent peer was dropped after a Client_timeout of two time units
RaceLostReturnsWitness ==
    /\ pc = "exit"
    /\ exit.why = "timeout"
    /\ silent
    /\ timeout_duration = 2
    /\ frame_time = 2
    /\ ~wrote

\* C17: no read of the header or of the payload is pending for longer than
\* Client_timeout, and a read that has been pending for Client_timeout is
\* followed by its bytes or by the return, not by more waiting.
TimeoutBounded ==
    /\ [](waited <= timeout_duration)
    /\ [][ (pc \in { "phase1", "phase3" } /\ waited = timeout_duration)
             => (waited' = waited \/ waited' = 0) ]_vars

\* a payload read timed out after exactly Client_timeout
TimeoutBoundedWitness ==
    /\ pc = "exit"
    /\ exit.why = "timeout"
    /\ exit.at = "phase3"
    /\ timeout_duration = 2
    /\ waited = 2

\* C18: the session times out only when one read has been pending for
\* Client_timeout, however long the frame has been in transfer: a frame
\* whose pieces each come sooner than that is received whole.
TimeoutPerRead ==
    [][ (exit = NoExit /\ exit'.why = "timeout") => waited = timeout_duration ]_vars

\* a frame with a payload, each read of it waited for less than
\* Client_timeout, was dispatched after more than Client_timeout in all
TimeoutPerReadWitness ==
    /\ pc = "loop"
    /\ Handled(SMFIC_CONNECT)
    /\ timeout_duration = 2
    /\ frame_time > timeout_duration
    /\ written # <<>>

\* C19: when every SIGHUP has been handled and main's accept loop is
\* listening with no notification unread, its listener is bound to the
\* address of the configuration loaded last.
ReloadRebinds ==
    (main_pc = "select" /\ shutdown_rx = 0 /\ hup_pc = "recv" /\ ~hup_signal)
        => listener = config.address

\* C20: a running session's timeout is the Client_timeout of the snapshot
\* main took for the accept cycle that accepted it.
SessionSnapshot ==
    \A i \in Slots :
        sessions[i].st = "running"
            => sessions[i].timeout_duration = sessions[i].snapshot.client_timeout

\* what a task alone, fed the frames fs, holds, has written and has reported
RECURSIVE RunAlone(_)
RunAlone(fs) ==
    IF fs = <<>>
    THEN [ locals |-> new_locals, written |-> <<>>, reported |-> <<>> ]
    ELSE LET before == RunAlone(Take(fs, Len(fs) - 1))
             r == handle_frame(before.locals, fs[Len(fs)])
         IN  [ locals |-> r.locals, written |-> before.written \o r.written,
               reported |-> before.reported \o r.reported ]

ResponseAfterPayload ==
    /\ [](written # <<>>
            => /\ pc = "loop"
               /\ Len(written) = 1
               /\ payload = done.frame.payload
               /\ Len(payload) = SaturatingSub1(SizeOf(header))
               /\ sock = EncodeAll(inflight))
    /\ [][reads' > reads => written = <<>> /\ written' = <<>>]_vars

\* a frame received in several reads has been answered while the next
\* frame is waiting, unread
ResponseAfterPayloadWitness ==
    /\ profile = "frame"
    /\ written # <<>>
    /\ Len(payload) = 2
    /\ reads >= 3
    /\ inflight # <<>>

\* C23: a frame with a recognised command byte never ends the session,
\* whatever was received before it: the handler returns from its reads
\* alone, and for the command byte only when from_u8 does not know it;
\* every dispatch is followed by the next iteration of the loop.
PermissiveMachine ==
    /\ [][pc = "dispatch" => pc' \in { "dispatch", "loop" }]_vars
    /\ [][pc = "loop" => pc' \in { "loop", "phase1" }]_vars
    /\ [][(exit' # exit /\ exit'.why = "badcmd") => Current.cmd \notin KnownCommands]_vars
    /\ [](pc = "exit" => exit.at \in { "phase1", "phase3" })

\* OPTNEG again in the middle of a message, handled, the session going on
PermissiveMachineWitness ==
    /\ profile = "misc"
    /\ Handled(SMFIC_OPTNEG)
    /\ is_body_eob
    /\ header_fields # EmptyMap
    /\ pc = "loop"

\* C24: the dispatch of a CONNECT or a HELO frame, whatever its payload and
\* whatever was received before, hands write_all the one frame 00 00 00 01 06
\* and changes none of the header map, the body buffer, is_body_eob and
\* is_header_block.
ConnectHeloContinue ==
    [][(pc = "dispatch" /\ command \in { SMFIC_CONNECT, SMFIC_HELO } /\ pc' = "loop")
         => /\ WrittenBytes' = << << 0, 0, 0, 1, 6 >> >>
            /\ is_body_eob' = is_body_eob
            /\ is_header_block' = is_header_block
            /\ header_fields' = header_fields
            /\ body_field' = body_field]_vars

\* a CONNECT with an empty payload answered while a header and the
\* start-of-header flag are held
ConnectHeloContinueWitness ==
    /\ Handled(SMFIC_CONNECT)
    /\ done.frame.payload = <<>>
    /\ WrittenBytes = << << 0, 0, 0, 1, 6 >> >>
    /\ is_header_block
    /\ header_fields # EmptyMap

\* C25: nothing is handed to write_all for a DATA, HEADER or BODY frame nor
\* for a frame of a recognised command without a decoder (ABORT, QUIT, RCPT,
\* 0x4D, ADDHEADER, DELHEADER, DELRCPT, ACCEPT), and the dispatch of a frame
\* of the latter group changes none of the header map, the body buffer,
\* is_body_eob and is_header_block.
NoResponseFrames ==
    /\ [](\A c \in { SMFIC_DATA, SMFIC_HEADER, SMFIC_BODY }
                     \cup (KnownCommands \ DecodedCommands) :
            Handled(c) => written = <<>>)
    /\ [][(pc = "dispatch" /\ command \in KnownCommands \ DecodedCommands /\ pc' = "loop")
            => /\ is_body_eob' = is_body_eob
               /\ is_header_block' = is_header_block
               /\ header_fields' = header_fields
               /\ body_field' = body_field]_vars

\* an ADDHEADER frame received in the body phase of a message, unanswered
NoResponseFramesWitness ==
    /\ Handled(SMFIC_ADDHEADER)
    /\ written = <<>>
    /\ is_body_eob
    /\ header_fields # EmptyMap
    /\ body_field # <<>>

\* C26: when the parser fails on the message of an end-of-message, the
\* ACCEPT frame has been handed to write_all all the same, the header map and
\* the body buffer are empty and is_body_eob is false, as after a parse that
\* succeeds, and the handler has not returned: it goes on to the next frame.
ParseFailureNotFatal ==
    /\ []((HandledEom /\ parsed # <<>> /\ ~parsed[1].ok)
            => /\ WrittenBytes = << << 0, 0, 0, 1, 97 >> >>
               /\ header_fields = EmptyMap
               /\ body_field = <<>>
               /\ ~is_body_eob
               /\ pc = "loop"
               /\ exit = NoExit)
    /\ [][(pc = "loop" /\ parsed # <<>>)
            => (pc' \in { "loop", "phase1" } /\ exit' = NoExit /\ session' = session)]_vars

\* the parser has failed on a message with a header and a body
ParseFailureNotFatalWitness ==
    /\ HandledEom
    /\ parsed # <<>>
    /\ ~parsed[1].ok
    /\ done.txh # <<>>
    /\ pc = "loop"

\* C27: the dispatch of an ABORT frame changes none of the header map, the
\* body buffer and is_body_eob: after it the handler still holds every HEADER
\* and BODY payload received since the last end-of-message, and is_body_eob
\* still tells whether a BODY frame was among them.
AbortKeepsAccumulators ==
    /\ [][(pc = "dispatch" /\ command = SMFIC_ABORT /\ pc' = "loop")
            => /\ header_fields' = header_fields
               /\ body_field' = body_field
               /\ is_body_eob' = is_body_eob]_vars
    /\ [](Handled(SMFIC_ABORT)
            => /\ header_fields = FoldHeaders(txHeaders)
               /\ body_field = FoldBody(txBodies)
               /\ is_body_eob = (txBodies # <<>>))

\* an ABORT handled with a header and a body chunk of the aborted
\* message still held
AbortKeepsAccumulatorsWitness ==
    /\ Handled(SMFIC_ABORT)
    /\ header_fields # EmptyMap
    /\ body_field # <<>>
    /\ pc = "loop"

\* the first byte of the payload that is not NUL is 'T'
StartsWithT(p) ==
    \E i \in 1..Len(p) : p[i] = 84 /\ \A j \in 1..(i - 1) : p[j] = 0

\* C28: is_header_block is false at first; it becomes true only by the
\* dispatch of a DATA frame whose first non-empty record starts with 'T',
\* which always sets it, and false only by the dispatch of a BODY frame,
\* which always clears it; the dispatch of 0x45, end-of-message included,
\* leaves it alone; the response to a frame and whether a message is handed
\* to the parser are decided without it.
HeaderBlockFlag ==
    /\ ~is_header_block
    /\ [][(~is_header_block /\ is_header_block')
            => (pc = "dispatch" /\ command = SMFIC_DATA /\ StartsWithT(payload))]_vars
    /\ [][(pc = "dispatch" /\ command = SMFIC_DATA /\ StartsWithT(payload) /\ pc' = "loop")
            => is_header_block']_vars
    /\ [][(is_header_block /\ ~is_header_block' /\ pc' # "exit")
            => (pc = "dispatch" /\ command = SMFIC_BODY)]_vars
    /\ [][(pc = "dispatch" /\ command = SMFIC_BODY /\ pc' = "loop")
            => ~is_header_block']_vars
    /\ [][(pc = "dispatch" /\ command = SMFIC_EOH /\ pc' = "loop")
            => is_header_block' = is_header_block]_vars
    /\ [](pc = "loop"
            => /\ (parsed # <<>>) = HandledEom
               /\ Handled(SMFIC_EOH) => WrittenBytes = << eoh_resp(done.txb # <<>>) >>
               /\ (written # <<>>)
                    = \/ done.frame.cmd \in { SMFIC_CONNECT, SMFIC_HELO, SMFIC_EOH }
                      \/ /\ Handled(SMFIC_OPTNEG)
                         /\ Len(done.frame.payload) >= OPTNEG_MIN_LEN)

\* a 0x45 answered CONTINUE with the flag, set by a DATA frame, still true
HeaderBlockFlagWitness ==
    /\ Handled(SMFIC_EOH)
    /\ is_header_block
    /\ WrittenBytes = << continue_resp >>
    /\ header_fields # EmptyMap

\* the name the one HEADER frame handled was stored under
StoredKey == CHOOSE k \in DOMAIN header_fields : TRUE

\* no whitespace at either end and no NUL at the end
Trimmed(x) ==
    x = <<>> \/ (x[1] \notin Whitespace /\ x[Len(x)] \notin Whitespace /\ x[Len(x)] # NUL)

\* C29: the name and the value decode_header stores for a HEADER payload
\* have no whitespace at either end and no NUL at the end.
HeaderPairTrimmed ==
    Handled(SMFIC_HEADER)
        => /\ Trimmed(StoredKey)
           /\ Trimmed(header_fields[StoredKey][1])

\* the payload length the header received declares: N - 1, or 0 for N = 0
Declared == SaturatingSub1(SizeOf(header))

\* C30: the framer reads five header bytes and then the N-1 payload bytes
\* the header declares, no more: while the payload is being read, what has
\* been received and what remains add up to N-1 and what remains is
\* positive; a read of the payload takes at most min(4096, remaining) bytes
\* and lowers remaining by what it took; when the frame is dispatched the
\* payload has N-1 bytes and every byte sent after them is still unread.
FramerExact ==
    /\ [](read_bytes <= HEADER_LEN /\ remaining >= 0)
    /\ [](pc = "phase3"
            => /\ read_bytes = HEADER_LEN
               /\ remaining > 0
               /\ Len(payload) + remaining = Declared)
    /\ [](pc \in { "dispatch", "loop" }
            => /\ read_bytes = HEADER_LEN
               /\ remaining = 0
               /\ Len(payload) = Declared)
    /\ [](pc \in { "phase3", "dispatch", "loop" }
            => payload \o sock = Take(Filler, Len(payload) + Len(sock)))
    /\ [][(pc = "phase3" /\ payload' # payload /\ pc' # "exit")
            => /\ Len(payload') - Len(payload) <= Min(4096, remaining)
               /\ remaining' = remaining - (Len(payload') - Len(payload))
               /\ payload' \o sock' = payload \o sock]_vars

\* a frame of declared length 3 received in three reads or more and
\* dispatched with the bytes that follow it unread
FramerExactWitness ==
    /\ profile = "raw"
    /\ pc = "dispatch"
    /\ Len(payload) = 2
    /\ reads >= 3
    /\ sock # <<>>

\* C31: while main waits in the select! of its accept loop with no
\* notification unread, whatever accept errors came before, a connection
\* that arrives is accepted (there being a session slot for it).
AcceptAfterError ==
    (Running /\ listener # "none" /\ shutdown_rx = 0
       /\ \E i \in Slots : sessions[i].st = "free")
        => ENABLED MainAccept

\* C32: when main's accept loop has broken to rebind and is not yet waiting
\* on its new listener, every session that exists, each of them accepted on
\* an old listener, has a shutdown notification unread in its receiver.
ReloadTerminatesSessions ==
    main_pc \in { "config", "bind", "subscribe" }
        => \A i \in Slots : sessions[i].st # "free" => sessions[i].rx > 0

\* C33: on a 0x45 frame received in the body phase the ACCEPT frame is
\* handed to write_all while nothing has been parsed or cleared; the message
\* is handed to the parser once, after that write has returned, and the
\* header map, the body buffer and is_body_eob are cleared, whether the
\* write succeeded or failed.
AcceptBeforeReassembly ==
    /\ [][written' # written
            => /\ parsed = <<>> /\ parsed' = <<>>
               /\ session' = session]_vars
    /\ [][parsed' # parsed
            => /\ Len(written) = 1 /\ written' = written
               /\ parsed = <<>> /\ Len(parsed') = 1]_vars
    /\ []((pc = "loop" /\ done.txb # <<>>)
            => /\ WrittenBytes = << << 0, 0, 0, 1, 97 >> >>
               /\ Len(parsed) = 1
               /\ parsed[1].body = body_crlf(FoldBody(done.txb))
               /\ header_fields = EmptyMap
               /\ body_field = <<>>
               /\ ~is_body_eob)

\* the ACCEPT write has failed and the message, with its headers, has been
\* parsed and cleared all the same
AcceptBeforeReassemblyWitness ==
    /\ profile = "eom"
    /\ pc = "loop"
    /\ done.txb # <<>>
    /\ done.txh # <<>>
    /\ ~written[1].ok
    /\ parsed # <<>>

\* C34: a message is handed to the parser only by the dispatch of a 0x45
\* frame with is_body_eob true, once for each such frame; a handler that
\* returns, on a peer close, a read error, a timeout, a shutdown or an
\* unknown command, hands nothing to the parser, whatever it holds.
ReassemblyOnlyAtEom ==
    /\ [](parsed # <<>> => (pc = "loop" /\ HandledEom))
    /\ []((pc = "loop" /\ HandledEom) => Len(parsed) = 1)
    /\ [](pc = "exit" => parsed = <<>>)
    /\ [][(parsed' # parsed /\ parsed' # <<>>)
            => (pc = "dispatch" /\ command = SMFIC_EOH /\ is_body_eob)]_vars

\* the handler has returned on an unknown command while it held a header
\* or a body, and nothing was parsed
ReassemblyOnlyAtEomWitness ==
    /\ pc = "exit"
    /\ exit.why = "badcmd"
    /\ exit.held
    /\ parsed = <<>>

\* C35: a frame whose length field is 0 is handled as one whose length field
\* is 1: with the fifth header byte the handler goes to the dispatch with
\* nothing remaining and an empty payload, reads no byte after the header,
\* and dispatches the command, which is answered as a frame of that command
\* is; the handler does not return.
ZeroLengthFrame ==
    /\ [][(pc = "phase1" /\ read_bytes' = HEADER_LEN /\ SizeOf(header') \in { 0, 1 })
            => /\ pc' = "dispatch"
               /\ remaining' = 0
               /\ payload' = <<>>
               /\ command' = header'[5]]_vars
    /\ []((pc \in { "dispatch", "loop" } /\ SizeOf(header) \in { 0, 1 })
            => /\ remaining = 0
               /\ payload = <<>>
               /\ sock = Take(Filler, Len(sock))
               /\ exit = NoExit)
    /\ []((pc = "loop" /\ SizeOf(header) \in { 0, 1 })
            => /\ WrittenBytes
                    = IF command = SMFIC_EOH THEN << << 0, 0, 0, 1, 6 >> >> ELSE <<>>
               /\ parsed = <<>>)
    /\ [][(pc = "dispatch" /\ SizeOf(header) \in { 0, 1 }) => pc' \in { "dispatch", "loop" }]_vars

\* a 0x45 frame with length field 0 answered CONTINUE, the bytes sent
\* after its header unread
ZeroLengthFrameWitness ==
    /\ profile = "raw"
    /\ pc = "loop"
    /\ header = << 0, 0, 0, 0, SMFIC_EOH >>
    /\ WrittenBytes = << << 0, 0, 0, 1, 6 >> >>
    /\ sock # <<>>

====
